---- MODULE Spec2Model ----
(***************************************************************************)
(* Model of the frame-scoped element locators and of the bounded result    *)
(* poller of the Bing image scraper (src/src/WebScapper.py; the same code  *)
(* is repeated in src/src/enhanced_bing.py).                               *)
(*                                                                         *)
(* Library behaviour assumed (seleniumbase / selenium, not in src/):       *)
(*   - sb.is_element_present(sel) returns a boolean and never raises: a    *)
(*     lookup error inside it is reported as False;                        *)
(*   - sb.wait_for_element_present(sel, timeout) returns the element or    *)
(*     raises when the element does not show up within the timeout;        *)
(*   - driver.switch_to.frame(iframe) raises on a stale reference and then *)
(*     leaves the browsing context where it was;                           *)
(*   - driver.switch_to.default_content() always succeeds;                 *)
(*   - find_elements / get_attribute may raise (stale element, dead        *)
(*     session); get_attribute returns None when the attribute is missing. *)
(***************************************************************************)
EXTENDS Integers, Sequences, FiniteSets, TLC

VARIABLES
    \* ---- locator (switch_to_prompt_frame, switch_to_create_button_frame,
    \*      _get_prompt_input_element)
    lpc,        \* position of the locate call: idle/start/enumerate/loop/done
    fn,         \* the locate routine being run
    page,       \* the page, relative to the selector the routine looks for
    ctx,        \* the driver's active browsing context: 0 = main document, i = iframe i
    entryCtx,   \* the context that was active when the call started
    snapshot,   \* iframes = find_elements(By.TAG_NAME, "iframe")
    idx,        \* position of the for loop in the snapshot
    outcome,    \* what the call gave its caller
    mainProbes, \* presence checks this call made in the main document
    tried,      \* the iframes this call called switch_to.frame on, in order
    probed,     \* the iframes this call made a presence check in, in order
    \* ---- poller (get_image_urls)
    ppc,        \* position of get_image_urls
    elapsed,    \* time.time() - start_time, in seconds
    urls,       \* the local list urls
    pending,    \* elements of image_elements not read yet in this round
    rounds,     \* extraction rounds started so far
    exitBy,     \* how the while loop was left: none/break/timeout
    result,     \* the returned list
    dom,        \* static page only: the src values of the img.image-row-img elements
    \* ---- generate_image and its two SpinnerAnimation objects
    gpc,        \* position of generate_image
    pageQ,      \* the page as seen by a search for #gi_form_q
    pageC,      \* the same page as seen by a search for #create_btn_c
    isSpinning, \* SpinnerAnimation.is_spinning, per spinner
    thread,     \* SpinnerAnimation.thread, per spinner: none/running/printing/exited
    finalAfter, \* per spinner: a final status message was printed since its start
    late,       \* per spinner: its thread wrote a frame after such a message
    stopOf,     \* the spinner whose stop() is running
    cont,       \* what follows that stop(): return / genStart
    ret,        \* the value generate_image is about to return
    sel,        \* the completion selector being waited for (4 = the xpath fallback)
    typedIn,    \* the context clear and type were issued in (NoCtx: not issued)
    clickedIn,  \* the context the click was issued in (NoCtx: not issued)
    waited,     \* the completion waits made by this call, in order
    foundAt,    \* the wait that found its element (0: none)
    \* ---- run_generation_cycle and download_all_images
    cpc,        \* position of run_generation_cycle
    imageUrls,  \* image_urls, the list get_image_urls returned
    di,         \* position of "for i, url in enumerate(image_urls)", from 1
    scripts,    \* the urls execute_script was called for, in order
    downloaded, \* len(downloaded_files)
    dlCalled,   \* download_all_images was called in this cycle
    cycleRet,   \* what run_generation_cycle returned
    stages,     \* the stages this cycle has entered, in order
    prompt,     \* prompt, as stripped
    genRet,     \* what generate_image gave: none/True/False/raised
    outcomes,   \* per iteration of the download loop: skip/saved/nodata/raise
    files,      \* downloaded_files, as the positions (from 1) of their urls
    \* ---- the session: start(), load_cookies, cleanup(), save_cookies
    spc,        \* position of the main flow: idle/auth/load/loop/started/done
    browser,    \* the SB browser: none/open/quit
    cookieFile, \* cookies.json: absent / old (as found at start) / session (written
                \* by save_cookies from the cookies of this session's browser)
    stored,     \* the record of the file the last add_cookie call came from
    passed,     \* filtered_cookie, the record that call was given
    nLoaded,    \* records of the file passed to add_cookie so far
    endBy,      \* how start() came to its end
    saveOk,     \* what save_cookies returned to cleanup
    authRet,    \* how authenticate() ended: none/True/False/raised
    raisedAt,   \* the step of authenticate whose failure ended it, or none
    opened,     \* load_cookies read and parsed the file and opened the page
    rejected,   \* how many cookies add_cookie has refused
    cycles,     \* how many passes of the generation loop have begun
    answer,     \* what the user typed at the last "(y/n)" question
    success,    \* what the last run_generation_cycle returned
    \* ---- enhanced_bing.py: PromptEnhancer, get_user_prompt, run_generation_cycle
    epc,        \* position: new/idle/choose/enhance/submit/returned
    enhancer,   \* off (enhancement disabled) / none (load failed) / loaded
    raw,        \* what the user typed at "Enter your image prompt"
    userPrompt, \* prompt = input(...).strip()
    choice,     \* what the user typed at "Choose option"
    enhRaised,  \* the enhancer call raised in this cycle
    enhArg,     \* the text the enhancer was called with
    enhOut,     \* response[0]['generated_text']
    finalPrompt,\* what get_user_prompt returned
    genCalled,  \* generate_image was called in this cycle
    submitted,  \* the prompt it was called with
    \* ---- get_image_urls on a page that changes between rounds
    earlier,    \* the URLs collected by the rounds before the last one performed
    \* ---- CookieManager.save_cookies, call by call
    vpc,        \* position of save_cookies: idle/get/open/dump/returned
    sbState,    \* the browser behind sb_instance: open or quit
    jar,        \* the cookies of the browser session, by name
    disk,       \* the cookie file: absent, whole or cut, and the cookies in it
    diskBefore, \* the cookie file when save_cookies was called
    saveRet     \* what save_cookies returned: none/True/False

locVars == <<lpc, fn, page, ctx, entryCtx, snapshot, idx, outcome, mainProbes, tried, probed>>
pollVars == <<ppc, elapsed, urls, pending, rounds, exitBy, result, dom>>
\* What the steps of the locator, and of the poller, leave alone.
\* What generate_image has done to the page so far in this call.
genHist == <<typedIn, clickedIn, waited, foundAt>>
genVars ==
    <<gpc, pageQ, pageC, isSpinning, thread, finalAfter, late, stopOf, cont, ret, sel, genHist>>
\* What a cycle has been given and has done so far.
cycHist == <<stages, prompt, genRet, outcomes, files>>
cycVars == <<cpc, imageUrls, di, scripts, downloaded, dlCalled, cycleRet, cycHist>>
\* How authentication and the generation loop of start() have gone so far.
sesHist == <<authRet, raisedAt, opened, rejected, cycles, answer, success>>
sesVars == <<spc, browser, cookieFile, stored, passed, nLoaded, endBy, saveOk, sesHist>>
enhVars ==
    <<epc, enhancer, raw, userPrompt, choice, enhRaised, enhArg, enhOut, finalPrompt,
      genCalled, submitted>>
chgVars == <<earlier>>
savVars == <<vpc, sbState, jar, disk, diskBefore, saveRet>>
restVars == <<genVars, cycVars, sesVars, enhVars, chgVars, savVars>>
locOther == <<pollVars, restVars>>
pollOther == <<locVars, restVars>>
vars == <<locVars, pollVars, restVars>>

Spinners == {"spinner", "generation_spinner"}

\* No browsing context: the operation has not been issued.
NoCtx == -1

\* Nothing typed, clicked or waited for.
GenHistReset ==
    /\ typedIn = NoCtx
    /\ clickedIn = NoCtx
    /\ waited = <<>>
    /\ foundAt = 0

\* generate_image not running, no spinner created.
GenIdle ==
    /\ gpc = "idle"
    /\ pageQ = [main |-> "absent", frames |-> <<>>]
    /\ pageC = [main |-> "absent", frames |-> <<>>]
    /\ isSpinning = [s \in Spinners |-> FALSE]
    /\ thread = [s \in Spinners |-> "none"]
    /\ finalAfter = [s \in Spinners |-> FALSE]
    /\ late = [s \in Spinners |-> FALSE]
    /\ stopOf = "spinner"
    /\ cont = "return"
    /\ ret = FALSE
    /\ sel = 0
    /\ GenHistReset

\* run_generation_cycle not running.
CycleIdle ==
    /\ cpc = "idle"
    /\ imageUrls = <<>>
    /\ di = 0
    /\ scripts = <<>>
    /\ downloaded = 0
    /\ dlCalled = FALSE
    /\ cycleRet = FALSE
    /\ stages = <<>>
    /\ prompt = ""
    /\ genRet = "none"
    /\ outcomes = <<>>
    /\ files = <<>>

\* A dict without keys.
NoCookie == [k \in {} |-> ""]

\* The program not started: no browser, no cookie read.
SessionIdle ==
    /\ spc = "idle"
    /\ browser = "none"
    /\ stored = NoCookie
    /\ passed = NoCookie
    /\ nLoaded = 0
    /\ endBy = "none"
    /\ saveOk = FALSE
    /\ authRet = "none"
    /\ raisedAt = "none"
    /\ opened = FALSE
    /\ rejected = 0
    /\ cycles = 0
    /\ answer = ""
    /\ success = FALSE

\* A cycle of the enhanced variant not begun: nothing typed, nothing submitted.
EnhCycleReset ==
    /\ raw = ""
    /\ userPrompt = ""
    /\ choice = ""
    /\ enhRaised = FALSE
    /\ enhArg = ""
    /\ enhOut = ""
    /\ finalPrompt = ""
    /\ genCalled = FALSE
    /\ submitted = ""

\* The scraper object of the enhanced variant not constructed.
EnhIdle ==
    /\ epc = "new"
    /\ enhancer = "off"
    /\ EnhCycleReset

\* No round performed.
ChangingIdle == earlier = {}

\* No cookie file.
NoFile == [state |-> "absent", cookies |-> <<>>]

SaveIdle ==
    /\ vpc = "idle"
    /\ sbState = "quit"
    /\ jar = <<>>
    /\ disk = NoFile
    /\ diskBefore = NoFile
    /\ saveRet = "none"

RestIdle ==
    /\ GenIdle
    /\ CycleIdle
    /\ SessionIdle
    /\ cookieFile = "absent"
    /\ EnhIdle
    /\ ChangingIdle
    /\ SaveIdle

\* ------------------------------------------------------------------ bounds
MaxFrames == 3
MaxElems == 5
MaxDomLen == 5
MaxGenFrames == 2
MaxCookies == 2
MaxCycles == 2
MaxJar == 2

\* ------------------------------------------------------------ the locator
Main == 0

SwitchFns == {"switch_to_prompt_frame", "switch_to_create_button_frame"}
LocateFns == SwitchFns \cup {"_get_prompt_input_element"}

Selector(f) ==
    IF f = "switch_to_create_button_frame" THEN "#create_btn_c" ELSE "#gi_form_q"

\* An iframe of the page: whether switch_to.frame works on it, and what a lookup
\* of the selector inside it meets.
FrameKinds == [switch : {"ok", "stale"}, probe : {"present", "absent", "error"}]

SeqsUpTo(S, n) == UNION {[1..k -> S] : k \in 0..n}

Pages == [main : {"present", "absent"}, frames : SeqsUpTo(FrameKinds, MaxFrames)]

\* What a lookup of the selector meets in context c of page p.
Probe(p, c) == IF c = Main THEN p.main ELSE p.frames[c].probe

\* sb.is_element_present: True when found, False otherwise (errors included).
IsElementPresent(p, c) == Probe(p, c) = "present"

\* sb.wait_for_element_present: the element when found, an exception otherwise.
WaitForElementPresent(p, c) == IF Probe(p, c) = "present" THEN "element" ELSE "raise"

FindIframes_SkipFirst(p, c) ==
    IF c = Main THEN [i \in 1..(Len(p.frames) - 1) |-> i + 1] ELSE <<>>

FindIframes_Twice(p, c) ==
    IF c = Main
    THEN [i \in 1..(2 * Len(p.frames)) |-> IF i <= Len(p.frames) THEN i ELSE i - Len(p.frames)]
    ELSE <<>>

FindIframes_Reversed(p, c) ==
    IF c = Main THEN [i \in 1..Len(p.frames) |-> Len(p.frames) + 1 - i] ELSE <<>>

\* driver.find_elements(By.TAG_NAME, "iframe"), run in the active context c: the
\* iframes of the main document, in DOM order; frames are not nested.
FindIframes(p, c) == IF c = Main THEN [i \in 1..Len(p.frames) |-> i] ELSE <<>>

\* driver.switch_to.frame(iframe) from the main document.
SwitchToFrame(p, f) == IF p.frames[f].switch = "ok" THEN f ELSE Main

SwitchRaises(p, f) == p.frames[f].switch # "ok"

\* driver.switch_to.default_content()
DefaultContent == Main

LocInit ==
    /\ lpc = "idle"
    /\ fn = "switch_to_prompt_frame"
    /\ page \in Pages
    /\ ctx = Main
    /\ entryCtx = Main
    /\ snapshot = <<>>
    /\ idx = 0
    /\ outcome = "none"
    /\ mainProbes = 0
    /\ tried = <<>>
    /\ probed = <<>>

\* The host page replaces iframe i between two calls (the page is outside the
\* caller's control); the driver's context is left as it is.
PageReplaceFrame(i, k) ==
    /\ lpc \in {"idle", "done"}
    /\ i \in 1..Len(page.frames)
    /\ page.frames[i] # k
    /\ page' = [page EXCEPT !.frames[i] = k]
    /\ lpc' = "idle"
    /\ outcome' = "none"
    /\ mainProbes' = 0
    /\ tried' = <<>>
    /\ probed' = <<>>
    /\ UNCHANGED <<fn, ctx, entryCtx, snapshot, idx>>
    /\ UNCHANGED locOther

\* The host page adds or removes the element in the main document between two calls.
PageSetMain(m) ==
    /\ lpc \in {"idle", "done"}
    /\ page.main # m
    /\ page' = [page EXCEPT !.main = m]
    /\ lpc' = "idle"
    /\ outcome' = "none"
    /\ mainProbes' = 0
    /\ tried' = <<>>
    /\ probed' = <<>>
    /\ UNCHANGED <<fn, ctx, entryCtx, snapshot, idx>>
    /\ UNCHANGED locOther

\* A caller starts a locate routine on the page as it is now. The active context
\* is the one the previous call left.
CallLocate(f) ==
    /\ lpc \in {"idle", "done"}
    /\ lpc' = "start"
    /\ fn' = f
    /\ entryCtx' = ctx
    /\ snapshot' = <<>>
    /\ idx' = 0
    /\ outcome' = "none"
    /\ mainProbes' = 0
    /\ tried' = <<>>
    /\ probed' = <<>>
    /\ UNCHANGED <<page, ctx>>
    /\ UNCHANGED locOther

\* switch_to_*_frame: default_content(), then the test in the main document.
SwitchStart ==
    /\ lpc = "start"
    /\ fn \in SwitchFns
    /\ ctx' = DefaultContent
    /\ IF IsElementPresent(page, DefaultContent)
       THEN lpc' = "done" /\ outcome' = "True"
       ELSE lpc' = "enumerate" /\ UNCHANGED outcome
    /\ mainProbes' = mainProbes + 1
    /\ UNCHANGED <<fn, page, entryCtx, snapshot, idx, tried, probed>>
    /\ UNCHANGED locOther

\* _get_prompt_input_element: the wait in the context that is active at entry.
GetStart ==
    /\ lpc = "start"
    /\ fn = "_get_prompt_input_element"
    /\ IF WaitForElementPresent(page, ctx) = "element"
       THEN lpc' = "done" /\ outcome' = "element"
       ELSE lpc' = "enumerate" /\ UNCHANGED outcome
    /\ IF ctx = Main
       THEN mainProbes' = mainProbes + 1 /\ UNCHANGED probed
       ELSE probed' = Append(probed, ctx) /\ UNCHANGED mainProbes
    /\ UNCHANGED <<fn, page, ctx, entryCtx, snapshot, idx, tried>>
    /\ UNCHANGED locOther

\* iframes = find_elements(By.TAG_NAME, "iframe")
Enumerate ==
    /\ lpc = "enumerate"
    /\ snapshot' = FindIframes(page, ctx)
    /\ idx' = 1
    /\ lpc' = "loop"
    /\ UNCHANGED <<fn, page, ctx, entryCtx, outcome, mainProbes, tried, probed>>
    /\ UNCHANGED locOther

\* The context after an iteration of the for loop that did not return.
CtxAfterMiss == DefaultContent

CtxOnMatch_Reset(inside) == DefaultContent

\* The context a routine leaves active when it returns from inside the loop: the
\* frame it switched into (no default_content() before the return).
CtxOnMatch(inside) == inside

NextIdx_Break(i, n) == n + 1

\* The loop goes on with the next iframe of the snapshot (of n iframes) after a
\* frame that failed or did not hold the element.
NextIdx(i, n) == i + 1

\* One iteration of the for loop of switch_to_*_frame.
SwitchTryFrame ==
    /\ lpc = "loop"
    /\ fn \in SwitchFns
    /\ idx <= Len(snapshot)
    /\ LET f == snapshot[idx]
           inside == SwitchToFrame(page, f)
       IN /\ IF ~SwitchRaises(page, f) /\ IsElementPresent(page, inside)
             THEN /\ ctx' = CtxOnMatch(inside)
                  /\ lpc' = "done"
                  /\ outcome' = "True"
                  /\ UNCHANGED idx
             ELSE /\ ctx' = CtxAfterMiss
                  /\ idx' = NextIdx(idx, Len(snapshot))
                  /\ UNCHANGED <<lpc, outcome>>
          /\ tried' = Append(tried, f)
          /\ probed' = IF SwitchRaises(page, f) THEN probed ELSE Append(probed, f)
    /\ UNCHANGED <<fn, page, entryCtx, snapshot, mainProbes>>
    /\ UNCHANGED locOther

\* One iteration of the for loop of _get_prompt_input_element.
GetTryFrame ==
    /\ lpc = "loop"
    /\ fn = "_get_prompt_input_element"
    /\ idx <= Len(snapshot)
    /\ LET f == snapshot[idx]
           inside == SwitchToFrame(page, f)
       IN /\ IF ~SwitchRaises(page, f) /\ WaitForElementPresent(page, inside) = "element"
             THEN /\ ctx' = CtxOnMatch(inside)
                  /\ lpc' = "done"
                  /\ outcome' = "element"
                  /\ UNCHANGED idx
             ELSE /\ ctx' = CtxAfterMiss
                  /\ idx' = NextIdx(idx, Len(snapshot))
                  /\ UNCHANGED <<lpc, outcome>>
          /\ tried' = Append(tried, f)
          /\ probed' = IF SwitchRaises(page, f) THEN probed ELSE Append(probed, f)
    /\ UNCHANGED <<fn, page, entryCtx, snapshot, mainProbes>>
    /\ UNCHANGED locOther

\* What a routine reports when no frame matched.
NotFoundOutcome(f) == IF f \in SwitchFns THEN "False" ELSE "NotFound"

CtxOnNotFound_Stay(c) == c

\* The context after the loop, from context c: default_content().
CtxOnNotFound(c) == DefaultContent

\* After the loop: default_content(), then return False / raise.
LocateNotFound ==
    /\ lpc = "loop"
    /\ idx > Len(snapshot)
    /\ ctx' = CtxOnNotFound(ctx)
    /\ outcome' = NotFoundOutcome(fn)
    /\ lpc' = "done"
    /\ UNCHANGED <<fn, page, entryCtx, snapshot, idx, mainProbes, tried, probed>>
    /\ UNCHANGED locOther

LocNext ==
    \/ \E i \in 1..MaxFrames, k \in FrameKinds : PageReplaceFrame(i, k)
    \/ \E m \in {"present", "absent"} : PageSetMain(m)
    \/ \E f \in LocateFns : CallLocate(f)
    \/ SwitchStart
    \/ GetStart
    \/ Enumerate
    \/ SwitchTryFrame
    \/ GetTryFrame
    \/ LocateNotFound

\* ------------------------------------------------------------- the poller
PollTimeout == 60
PollInterval == 2
TargetCount == 4

\* What elem.get_attribute("src") returns: <<>> for None (no such attribute),
\* <<s>> for the string s.
None == <<>>

AttrValues ==
    {None, <<"">>, <<"data:f">>, <<"http://a">>, <<"blob:b">>, <<"http://c">>,
     <<"https://d">>, <<"httpfoo">>}

\* str.startswith
StartsWith(s, prefix) ==
    Len(s) >= Len(prefix) /\ SubSeq(s, 1, Len(prefix)) = prefix

IsValidSrc_AnyNonEmpty(v) == v # None /\ v[1] # ""

\* src and (src.startswith("http") or src.startswith("blob:"))
IsValidSrc(v) ==
    /\ v # None
    /\ v[1] # ""
    /\ (StartsWith(v[1], "http") \/ StartsWith(v[1], "blob:"))

\* src not in urls
NotIn(u, s) == \A i \in 1..Len(u) : u[i] # s

AppendIfValid_NoDedup(u, v) == IF IsValidSrc(v) THEN Append(u, v[1]) ELSE u

AppendIfValid_Prepend(u, v) ==
    IF IsValidSrc(v) /\ NotIn(u, v[1]) THEN <<v[1]>> \o u ELSE u

\* The body of "for elem in image_elements" for one element whose src is v.
AppendIfValid(u, v) == IF IsValidSrc(v) /\ NotIn(u, v[1]) THEN Append(u, v[1]) ELSE u

BreakCondition_OffByOne(u) == Len(u) > TargetCount

\* if len(urls) >= 4: break
BreakCondition(u) == Len(u) >= TargetCount

RECURSIVE Pad(_)
Pad_Nothing(u) == u

\* while len(urls) < 4: urls.append("")
Pad(u) == IF Len(u) < TargetCount THEN Pad(Append(u, "")) ELSE u

Truncate_Nothing(u) == u

\* urls[:4]
Truncate(u) == SubSeq(u, 1, IF Len(u) < TargetCount THEN Len(u) ELSE TargetCount)

\* time.sleep(2) and the next evaluation of time.time() - start_time, at elapsed
\* time e: the sleep lasts its two seconds, or the browser stalls and the budget
\* is used up when the loop condition is evaluated again.
SleepDurations(e) == {PollInterval, PollTimeout - e}

\* run_generation_cycle calls get_image_urls: time.sleep(10), start_time = time.time(),
\* urls = [].
CallPoll ==
    /\ ppc \in {"idle", "returned", "raised"}
    /\ ppc' = "loop"
    /\ elapsed' = 0
    /\ urls' = <<>>
    /\ pending' = 0
    /\ rounds' = 0
    /\ exitBy' = "none"
    /\ result' = <<>>
    /\ UNCHANGED dom
    /\ UNCHANGED pollOther

\* Loop condition true; image_elements = find_elements(...) gives n elements;
\* urls = [].
FindElements(n) ==
    /\ ppc = "loop"
    /\ elapsed < PollTimeout
    /\ pending' = n
    /\ urls' = <<>>
    /\ rounds' = rounds + 1
    /\ ppc' = "read"
    /\ UNCHANGED <<elapsed, exitBy, result, dom>>
    /\ UNCHANGED pollOther

\* find_elements raises: nothing in get_image_urls catches it.
FindElementsRaises ==
    /\ ppc = "loop"
    /\ elapsed < PollTimeout
    /\ rounds' = rounds + 1
    /\ ppc' = "raised"
    /\ UNCHANGED <<elapsed, urls, pending, exitBy, result, dom>>
    /\ UNCHANGED pollOther

\* One iteration of the for loop: src = elem.get_attribute("src") gives v.
GetAttribute(v) ==
    /\ ppc = "read"
    /\ pending > 0
    /\ urls' = AppendIfValid(urls, v)
    /\ pending' = pending - 1
    /\ UNCHANGED <<ppc, elapsed, rounds, exitBy, result, dom>>
    /\ UNCHANGED pollOther

\* get_attribute raises (a stale element): nothing in get_image_urls catches it.
GetAttributeRaises ==
    /\ ppc = "read"
    /\ pending > 0
    /\ ppc' = "raised"
    /\ UNCHANGED <<elapsed, urls, pending, rounds, exitBy, result, dom>>
    /\ UNCHANGED pollOther

\* After the for loop, at least 4 urls: break, pad, return urls[:4].
RoundEndBreak ==
    /\ ppc = "read"
    /\ pending = 0
    /\ BreakCondition(urls)
    /\ exitBy' = "break"
    /\ result' = Truncate(Pad(urls))
    /\ ppc' = "returned"
    /\ UNCHANGED <<elapsed, urls, pending, rounds, dom>>
    /\ UNCHANGED pollOther

\* After the for loop, fewer than 4 urls: time.sleep(2), back to the loop condition.
RoundEndSleep(d) ==
    /\ ppc = "read"
    /\ pending = 0
    /\ ~BreakCondition(urls)
    /\ d > 0
    /\ elapsed' = elapsed + d
    /\ ppc' = "loop"
    /\ UNCHANGED <<urls, pending, rounds, exitBy, result, dom>>
    /\ UNCHANGED pollOther

\* Loop condition false: pad, return urls[:4].
LoopTimeout ==
    /\ ppc = "loop"
    /\ elapsed >= PollTimeout
    /\ exitBy' = "timeout"
    /\ result' = Truncate(Pad(urls))
    /\ ppc' = "returned"
    /\ UNCHANGED <<elapsed, urls, pending, rounds, dom>>
    /\ UNCHANGED pollOther

PollNext ==
    \/ CallPoll
    \/ \E n \in 0..MaxElems : FindElements(n)
    \/ FindElementsRaises
    \/ \E v \in AttrValues : GetAttribute(v)
    \/ GetAttributeRaises
    \/ RoundEndBreak
    \/ \E d \in SleepDurations(elapsed) : RoundEndSleep(d)
    \/ LoopTimeout

PollIdle ==
    /\ ppc = "idle"
    /\ elapsed = 0
    /\ urls = <<>>
    /\ pending = 0
    /\ rounds = 0
    /\ exitBy = "none"
    /\ result = <<>>
    /\ dom = <<>>

LocateInit == LocInit /\ PollIdle /\ RestIdle

\* The locator at rest on a page without iframes.
LocIdle ==
    /\ lpc = "idle"
    /\ fn = "switch_to_prompt_frame"
    /\ page = [main |-> "absent", frames |-> <<>>]
    /\ ctx = Main
    /\ entryCtx = Main
    /\ snapshot = <<>>
    /\ idx = 0
    /\ outcome = "none"
    /\ mainProbes = 0
    /\ tried = <<>>
    /\ probed = <<>>

\* A page whose img.image-row-img elements never change: every find_elements
\* gives the same elements and every get_attribute("src") the same value.
StaticSrcs ==
    {<<"">>, <<"http://a">>, <<"blob:b">>, <<"http://c">>, <<"https://d">>, <<"blob:e">>}

StaticDoms == SeqsUpTo(StaticSrcs, MaxDomLen)

RECURSIVE ExtractAll(_, _)
\* urls = [] followed by the whole for loop over the elements whose src values
\* are d.
ExtractAll(u, d) ==
    IF d = <<>> THEN u ELSE ExtractAll(AppendIfValid(u, Head(d)), Tail(d))

\* One pass of the while loop on the static page: extraction, then break and
\* return, or time.sleep(2), which lasts its two seconds.
StaticRound ==
    /\ ppc = "loop"
    /\ elapsed < PollTimeout
    /\ rounds' = rounds + 1
    /\ urls' = ExtractAll(<<>>, dom)
    /\ IF BreakCondition(urls')
       THEN /\ exitBy' = "break"
            /\ result' = Truncate(Pad(urls'))
            /\ ppc' = "returned"
            /\ UNCHANGED elapsed
       ELSE /\ elapsed' = elapsed + PollInterval
            /\ UNCHANGED <<ppc, exitBy, result>>
    /\ UNCHANGED <<pending, dom>>
    /\ UNCHANGED pollOther

StaticNext ==
    \/ CallPoll
    \/ StaticRound
    \/ LoopTimeout

StaticInit ==
    /\ LocIdle
    /\ RestIdle
    /\ ppc = "idle"
    /\ elapsed = 0
    /\ urls = <<>>
    /\ pending = 0
    /\ rounds = 0
    /\ exitBy = "none"
    /\ result = <<>>
    /\ dom \in StaticDoms

SpecStatic == StaticInit /\ [][StaticNext]_vars

\* ------------------------------------------------------- generate_image
\* completion_selectors has three entries; the xpath fallback is the fourth wait.
NumCompletionSelectors == 3

\* The pages generate_image runs on: a lookup inside an iframe finds the element
\* or does not.
GenPages ==
    [main : {"present", "absent"},
     frames : SeqsUpTo([switch : {"ok", "stale"}, probe : {"present", "absent"}],
                       MaxGenFrames)]

\* The views of the page of view p for another selector: the same iframes, each
\* as enterable as in p.
SameFrames(p) ==
    {q \in GenPages : /\ Len(q.frames) = Len(p.frames)
                      /\ \A i \in 1..Len(p.frames) : q.frames[i].switch = p.frames[i].switch}

GenInit ==
    /\ pageQ \in GenPages
    /\ pageC \in SameFrames(pageQ)
    /\ lpc = "idle"
    /\ fn = "switch_to_prompt_frame"
    /\ page = pageQ
    /\ ctx = Main
    /\ entryCtx = Main
    /\ snapshot = <<>>
    /\ idx = 0
    /\ outcome = "none"
    /\ mainProbes = 0
    /\ tried = <<>>
    /\ probed = <<>>
    /\ PollIdle
    /\ gpc = "idle"
    /\ isSpinning = [s \in Spinners |-> FALSE]
    /\ thread = [s \in Spinners |-> "none"]
    /\ finalAfter = [s \in Spinners |-> FALSE]
    /\ late = [s \in Spinners |-> FALSE]
    /\ stopOf = "spinner"
    /\ cont = "return"
    /\ ret = FALSE
    /\ sel = 0
    /\ GenHistReset
    /\ CycleIdle
    /\ SessionIdle
    /\ cookieFile = "absent"
    /\ EnhIdle
    /\ ChangingIdle
    /\ SaveIdle

genOther == <<pollVars, cycVars, sesVars, enhVars, chgVars, savVars>>

ActuationCtx_Main(c) == Main

\* sb.clear, sb.type and sb.click look the selector up in the driver's active
\* context c.
ActuationCtx(c) == c

\* SpinnerAnimation.stop(final_message), first statement: self.is_spinning = False.
\* c is what follows the stop, r the value a following return gives.
BeginStop(s, c, r) ==
    /\ isSpinning' = [isSpinning EXCEPT ![s] = FALSE]
    /\ stopOf' = s
    /\ cont' = c
    /\ ret' = r
    /\ gpc' = "join"

\* run_generation_cycle calls generate_image: spinner = SpinnerAnimation(...),
\* spinner.start().
GenCall ==
    /\ gpc \in {"idle", "returned"}
    /\ isSpinning' = [s \in Spinners |-> s = "spinner"]
    /\ thread' = [s \in Spinners |-> IF s = "spinner" THEN "running" ELSE "none"]
    /\ finalAfter' = [s \in Spinners |-> FALSE]
    /\ late' = [s \in Spinners |-> FALSE]
    /\ gpc' = "open"
    /\ sel' = 0
    /\ UNCHANGED <<pageQ, pageC, stopOf, cont, ret>>
    /\ typedIn' = NoCtx /\ clickedIn' = NoCtx /\ waited' = <<>> /\ foundAt' = 0
    /\ UNCHANGED <<locVars, genOther>>

\* self.sb.open(self.page_url); time.sleep(3): the new document is the active
\* context.
GenOpen ==
    /\ gpc = "open"
    /\ ctx' = DefaultContent
    /\ gpc' = "locQ"
    /\ UNCHANGED <<lpc, fn, page, entryCtx, snapshot, idx, outcome, mainProbes, tried, probed>>
    /\ UNCHANGED <<pageQ, pageC, isSpinning, thread, finalAfter, late, stopOf, cont, ret, sel>>
    /\ UNCHANGED genHist
    /\ UNCHANGED genOther

\* The call of a switch_to_*_frame routine f on the view p of the page.
GenLocate(f, p) ==
    /\ lpc \in {"idle", "done"}
    /\ lpc' = "start"
    /\ fn' = f
    /\ page' = p
    /\ entryCtx' = ctx
    /\ snapshot' = <<>>
    /\ idx' = 0
    /\ outcome' = "none"
    /\ mainProbes' = 0
    /\ tried' = <<>>
    /\ probed' = <<>>
    /\ UNCHANGED ctx

\* self.switch_to_prompt_frame() is called.
GenCallPrompt ==
    /\ gpc = "locQ"
    /\ GenLocate("switch_to_prompt_frame", pageQ)
    /\ gpc' = "waitQ"
    /\ UNCHANGED <<pageQ, pageC, isSpinning, thread, finalAfter, late, stopOf, cont, ret, sel>>
    /\ UNCHANGED genHist
    /\ UNCHANGED genOther

\* if not self.switch_to_prompt_frame(): spinner.stop(...); return False
GenPromptResult ==
    /\ gpc = "waitQ"
    /\ lpc = "done"
    /\ IF outcome = "True"
       THEN gpc' = "type" /\ UNCHANGED <<isSpinning, stopOf, cont, ret>>
       ELSE BeginStop("spinner", "return", FALSE)
    /\ UNCHANGED <<pageQ, pageC, thread, finalAfter, late, sel>>
    /\ UNCHANGED genHist
    /\ UNCHANGED <<locVars, genOther>>

\* self.sb.clear("#gi_form_q"); self.sb.type("#gi_form_q", prompt)
GenType ==
    /\ gpc = "type"
    /\ gpc' = "locC"
    /\ UNCHANGED <<pageQ, pageC, isSpinning, thread, finalAfter, late, stopOf, cont, ret, sel>>
    /\ typedIn' = ActuationCtx(ctx)
    /\ UNCHANGED <<clickedIn, waited, foundAt>>
    /\ UNCHANGED <<locVars, genOther>>

\* self.switch_to_create_button_frame() is called.
GenCallButton ==
    /\ gpc = "locC"
    /\ GenLocate("switch_to_create_button_frame", pageC)
    /\ gpc' = "waitC"
    /\ UNCHANGED <<pageQ, pageC, isSpinning, thread, finalAfter, late, stopOf, cont, ret, sel>>
    /\ UNCHANGED genHist
    /\ UNCHANGED genOther

\* if not self.switch_to_create_button_frame(): spinner.stop(...); return False
GenButtonResult ==
    /\ gpc = "waitC"
    /\ lpc = "done"
    /\ IF outcome = "True"
       THEN gpc' = "click" /\ UNCHANGED <<isSpinning, stopOf, cont, ret>>
       ELSE BeginStop("spinner", "return", FALSE)
    /\ UNCHANGED <<pageQ, pageC, thread, finalAfter, late, sel>>
    /\ UNCHANGED genHist
    /\ UNCHANGED <<locVars, genOther>>

\* self.sb.click("#create_btn_c"); spinner.stop("Waiting for image generation...")
GenClick ==
    /\ gpc = "click"
    /\ BeginStop("spinner", "genStart", FALSE)
    /\ UNCHANGED <<pageQ, pageC, thread, finalAfter, late, sel>>
    /\ clickedIn' = ActuationCtx(ctx)
    /\ UNCHANGED <<typedIn, waited, foundAt>>
    /\ UNCHANGED <<locVars, genOther>>

\* sb.open, sb.clear, sb.type or sb.click raises an Exception: the handler of
\* generate_image runs spinner.stop(...) and returns False.
GenExcept ==
    /\ gpc \in {"open", "type", "click"}
    /\ BeginStop("spinner", "return", FALSE)
    /\ UNCHANGED <<pageQ, pageC, thread, finalAfter, late, sel>>
    /\ UNCHANGED genHist
    /\ UNCHANGED <<locVars, genOther>>

JoinReturns_AtOnce(t) == TRUE

\* self.thread.join() on a thread in state t: blocks until _spin has returned.
JoinReturns(t) == t = "exited"

\* SpinnerAnimation.stop: self.thread.join() returns once the thread is over.
SpinnerJoin ==
    /\ gpc = "join"
    /\ JoinReturns(thread[stopOf])
    /\ gpc' = "print"
    /\ UNCHANGED <<pageQ, pageC, isSpinning, thread, finalAfter, late, stopOf, cont, ret, sel>>
    /\ UNCHANGED genHist
    /\ UNCHANGED <<locVars, genOther>>

\* A final status message reaches the console: it comes after every spinner
\* that has been started.
FinalPrinted == [s \in Spinners |-> thread[s] # "none"]

\* SpinnerAnimation.stop: the two prints (line cleared, final message); then the
\* return of generate_image, or its next statements.
SpinnerPrintFinal ==
    /\ gpc = "print"
    /\ finalAfter' = FinalPrinted
    /\ gpc' = IF cont = "return" THEN "returned" ELSE "genStart"
    /\ UNCHANGED <<pageQ, pageC, isSpinning, thread, late, stopOf, cont, ret, sel>>
    /\ UNCHANGED genHist
    /\ UNCHANGED <<locVars, genOther>>

\* generation_spinner = SpinnerAnimation(...); generation_spinner.start()
GenSpinnerStart ==
    /\ gpc = "genStart"
    /\ isSpinning' = [isSpinning EXCEPT !["generation_spinner"] = TRUE]
    /\ thread' = [thread EXCEPT !["generation_spinner"] = "running"]
    /\ finalAfter' = [finalAfter EXCEPT !["generation_spinner"] = FALSE]
    /\ gpc' = "wait"
    /\ sel' = 1
    /\ UNCHANGED <<pageQ, pageC, late, stopOf, cont, ret>>
    /\ UNCHANGED genHist
    /\ UNCHANGED <<locVars, genOther>>

\* wait_for_element_present finds the completion marker (selector sel, or the
\* xpath fallback): generation_spinner.stop(...); return True.
GenWaitFound ==
    /\ gpc = "wait"
    /\ BeginStop("generation_spinner", "return", TRUE)
    /\ UNCHANGED <<pageQ, pageC, thread, finalAfter, late, sel>>
    /\ waited' = Append(waited, sel)
    /\ foundAt' = sel
    /\ UNCHANGED <<typedIn, clickedIn>>
    /\ UNCHANGED <<locVars, genOther>>

NextSelector_Skip(k) == k + 2

\* "for selector in completion_selectors" after the wait for selector k failed
\* ("continue"); past the last one comes the fallback.
NextSelector(k) == k + 1

\* wait_for_element_present raises: the next selector, then the fallback, then
\* generation_spinner.stop(...); return False.
GenWaitMiss ==
    /\ gpc = "wait"
    /\ IF sel <= NumCompletionSelectors
       THEN sel' = NextSelector(sel) /\ UNCHANGED <<gpc, isSpinning, stopOf, cont, ret>>
       ELSE BeginStop("generation_spinner", "return", FALSE) /\ UNCHANGED sel
    /\ UNCHANGED <<pageQ, pageC, thread, finalAfter, late>>
    /\ waited' = Append(waited, sel)
    /\ UNCHANGED <<typedIn, clickedIn, foundAt>>
    /\ UNCHANGED <<locVars, genOther>>

\* KeyboardInterrupt in the main thread while generate_image runs: neither
\* "except Exception" (generate_image, run_generation_cycle) catches it; start
\* prints "Generation interrupted by user" and leaves its loop.
GenInterrupt ==
    /\ gpc \notin {"idle", "returned", "interrupted"}
    /\ gpc' = "interrupted"
    /\ lpc' = "idle"
    /\ finalAfter' = FinalPrinted
    /\ UNCHANGED <<fn, page, ctx, entryCtx, snapshot, idx, outcome, mainProbes, tried, probed>>
    /\ UNCHANGED <<pageQ, pageC, isSpinning, thread, late, stopOf, cont, ret, sel>>
    /\ UNCHANGED genHist
    /\ UNCHANGED genOther

\* _spin, thread of spinner s: the test of "while self.is_spinning".
SpinCheck(s) ==
    /\ thread[s] = "running"
    /\ thread' = [thread EXCEPT ![s] = IF isSpinning[s] THEN "printing" ELSE "exited"]
    /\ UNCHANGED <<gpc, pageQ, pageC, isSpinning, finalAfter, late, stopOf, cont, ret, sel>>
    /\ UNCHANGED genHist
    /\ UNCHANGED <<locVars, genOther>>

\* _spin, thread of spinner s: print of a spinner frame; time.sleep(0.1).
SpinPrint(s) ==
    /\ thread[s] = "printing"
    /\ thread' = [thread EXCEPT ![s] = "running"]
    /\ late' = [late EXCEPT ![s] = late[s] \/ finalAfter[s]]
    /\ UNCHANGED <<gpc, pageQ, pageC, isSpinning, finalAfter, stopOf, cont, ret, sel>>
    /\ UNCHANGED genHist
    /\ UNCHANGED <<locVars, genOther>>

GenNext ==
    \/ GenCall
    \/ GenOpen
    \/ GenCallPrompt
    \/ GenPromptResult
    \/ GenType
    \/ GenCallButton
    \/ GenButtonResult
    \/ GenClick
    \/ GenExcept
    \/ SpinnerJoin
    \/ SpinnerPrintFinal
    \/ GenSpinnerStart
    \/ GenWaitFound
    \/ GenWaitMiss
    \/ GenInterrupt
    \/ \E s \in Spinners : SpinCheck(s)
    \/ \E s \in Spinners : SpinPrint(s)
    \/ SwitchStart
    \/ Enumerate
    \/ SwitchTryFrame
    \/ LocateNotFound

SpecGen == GenInit /\ [][GenNext]_vars

\* generate_image on the pages with one iframe.
GenInitOneFrame == GenInit /\ Len(pageQ.frames) = 1

\* The threads are scheduled fairly: a spinner thread that can take a step takes
\* it in the end, and a join() whose thread is over returns.
SpecGenFair ==
    /\ GenInitOneFrame
    /\ [][GenNext]_vars
    /\ \A s \in Spinners : WF_vars(SpinCheck(s)) /\ WF_vars(SpinPrint(s))
    /\ WF_vars(SpinnerJoin)

\* ------------------------------------------- properties of generate_image
\* C11 as stated: whenever generate_image has returned, with True or False, the
\* main document is the active browsing context.
C11_ReturnsInMainDocument == (gpc = "returned") => ctx = Main

\* C13 as stated: once a final status message is on the console (the message of
\* stop(), or one printed later, the KeyboardInterrupt path included), no
\* spinner thread that was started before it writes a frame.
C13_NoFrameAfterFinalMessage == \A s \in Spinners : ~late[s]

\* --------------------------------------------------- run_generation_cycle
RECURSIVE Strip(_)
\* str.strip(): without the leading and trailing blanks.
Strip(t) ==
    IF Len(t) > 0 /\ SubSeq(t, 1, 1) = " " THEN Strip(SubSeq(t, 2, Len(t)))
    ELSE IF Len(t) > 0 /\ SubSeq(t, Len(t), Len(t)) = " "
    THEN Strip(SubSeq(t, 1, Len(t) - 1))
    ELSE t

cycOther == <<locVars, pollVars, genVars, sesVars, enhVars, chgVars, savVars>>

\* The lists get_image_urls can return: those it returns on the static pages.
PollResults == {Truncate(Pad(ExtractAll(<<>>, d))) : d \in StaticDoms}

\* The truth value of a str: "if url", "if not image_url".
Truthy(u) == u # ""

AnyUrl_Always(u) == TRUE

\* any(image_urls)
AnyUrl(u) == \E i \in 1..Len(u) : Truthy(u[i])

\* The cycle ends with "return r".
CycleReturn(r) ==
    /\ cpc' = "returned"
    /\ cycleRet' = r

\* run_generation_cycle is called; prompt = input(...).strip(); an empty prompt
\* ends the cycle.
CycleStart(typed) ==
    /\ cpc \in {"idle", "returned"}
    /\ imageUrls' = <<>>
    /\ di' = 0
    /\ scripts' = <<>>
    /\ downloaded' = 0
    /\ dlCalled' = FALSE
    /\ IF Strip(typed) = ""
       THEN CycleReturn(FALSE)
       ELSE cpc' = "generate" /\ cycleRet' = FALSE
    /\ stages' = <<"prompt">>
    /\ prompt' = Strip(typed)
    /\ genRet' = "none"
    /\ outcomes' = <<>>
    /\ files' = <<>>
    /\ UNCHANGED cycOther

\* if not self.image_generator.generate_image(prompt): return False
CycleGenerate(ok) ==
    /\ cpc = "generate"
    /\ IF ok THEN cpc' = "poll" /\ UNCHANGED cycleRet ELSE CycleReturn(FALSE)
    /\ UNCHANGED <<imageUrls, di, scripts, downloaded, dlCalled>>
    /\ stages' = Append(stages, "generate")
    /\ genRet' = IF ok THEN "True" ELSE "False"
    /\ UNCHANGED <<prompt, outcomes, files>>
    /\ UNCHANGED cycOther

\* image_urls = get_image_urls(self.sb) gives u; if not any(image_urls): return
\* False; otherwise download_all_images is called.
CyclePoll(u) ==
    /\ cpc = "poll"
    /\ imageUrls' = u
    /\ IF AnyUrl(u)
       THEN /\ cpc' = "download"
            /\ dlCalled' = TRUE
            /\ di' = 1
            /\ UNCHANGED cycleRet
       ELSE /\ CycleReturn(FALSE)
            /\ UNCHANGED <<dlCalled, di>>
    /\ UNCHANGED <<scripts, downloaded>>
    /\ stages' = stages \o (IF AnyUrl(u) THEN <<"poll", "download">> ELSE <<"poll">>)
    /\ UNCHANGED <<prompt, genRet, outcomes, files>>
    /\ UNCHANGED cycOther

\* generate_image or get_image_urls raises: "except Exception" of
\* run_generation_cycle returns False.
CycleExcept ==
    /\ cpc \in {"generate", "poll"}
    /\ CycleReturn(FALSE)
    /\ UNCHANGED <<imageUrls, di, scripts, downloaded, dlCalled>>
    /\ stages' = Append(stages, cpc)
    /\ genRet' = IF cpc = "generate" THEN "raised" ELSE genRet
    /\ UNCHANGED <<prompt, outcomes, files>>
    /\ UNCHANGED cycOther

\* download_image(sb, url, prompt, i): the urls execute_script has been called
\* for, after this call, when they were sc before it.
ScriptsAfter(sc, url) == IF ~Truthy(url) THEN sc ELSE Append(sc, url)

FilesAfter_Any(fs, i, got) == Append(fs, i)

\* path = self.download_image(...); if path: downloaded_files.append(path): the
\* list fs after the download of the url at position i ended as got.
FilesAfter(fs, i, got) == IF got = "saved" THEN Append(fs, i) ELSE fs

\* One iteration of the for loop of download_all_images: "if url:" and then
\* download_image, which saves the file (got = "saved"), gets no data from the
\* script (got = "nodata") or fails (got = "raise"); a falsy url goes without.
DownloadStep(got) ==
    /\ cpc = "download"
    /\ di <= Len(imageUrls)
    /\ IF Truthy(imageUrls[di])
       THEN /\ scripts' = ScriptsAfter(scripts, imageUrls[di])
            /\ downloaded' = IF got = "saved" THEN downloaded + 1 ELSE downloaded
       ELSE /\ got = "saved"
            /\ UNCHANGED <<scripts, downloaded>>
    /\ di' = di + 1
    /\ UNCHANGED <<cpc, imageUrls, dlCalled, cycleRet>>
    /\ outcomes' = Append(outcomes, IF Truthy(imageUrls[di]) THEN got ELSE "skip")
    /\ files' = IF Truthy(imageUrls[di]) THEN FilesAfter(files, di, got) ELSE files
    /\ UNCHANGED <<stages, prompt, genRet>>
    /\ UNCHANGED cycOther

DownloadedAny_Always(fs) == TRUE

\* if downloaded_files:
DownloadedAny(fs) == fs # <<>>

\* download_all_images returns; if downloaded_files: return True, else False.
DownloadDone ==
    /\ cpc = "download"
    /\ di > Len(imageUrls)
    /\ CycleReturn(DownloadedAny(files))
    /\ UNCHANGED <<imageUrls, di, scripts, downloaded, dlCalled>>
    /\ UNCHANGED cycHist
    /\ UNCHANGED cycOther

CycleNext ==
    \/ \E typed \in {"", "  ", " a cat "} : CycleStart(typed)
    \/ \E ok \in BOOLEAN : CycleGenerate(ok)
    \/ \E u \in PollResults : CyclePoll(u)
    \/ CycleExcept
    \/ \E got \in {"saved", "nodata", "raise"} : DownloadStep(got)
    \/ DownloadDone

CycleInit == LocIdle /\ PollIdle /\ RestIdle

SpecCycle == CycleInit /\ [][CycleNext]_vars

\* C17: no script is ever run for an empty entry of the poll result (the scripts
\* run are exactly those of the non-empty entries already passed, in order), and
\* a cycle whose poll result has four empty entries returns False without
\* calling download_all_images.
C17_EmptyEntriesNeverUsed ==
    /\ \A k \in 1..Len(scripts) : scripts[k] # ""
    /\ (cpc = "download")
       => scripts = SelectSeq(SubSeq(imageUrls, 1, di - 1), LAMBDA u : u # "")
    /\ (cpc = "returned" /\ imageUrls = <<"", "", "", "">>)
       => (cycleRet = FALSE /\ ~dlCalled /\ scripts = <<>>)
    /\ dlCalled => \E i \in 1..Len(imageUrls) : imageUrls[i] # ""

C17_Witness ==
    /\ cpc = "returned"
    /\ imageUrls = <<"http://a", "blob:b", "", "">>
    /\ scripts = <<"http://a", "blob:b">>
    /\ di = 5
    /\ cycleRet = TRUE

\* ------------------------------------------------------------ the session
sesOther == <<locVars, pollVars, genVars, cycVars, enhVars, chgVars, savVars>>

CookieKeys ==
    {"name", "value", "path", "domain", "secure", "expiry", "expires", "httpOnly", "sameSite"}

\* The value a record of the file holds under key k other than "domain".
FieldValue(k) ==
    CASE k = "name" -> "_U"
      [] k = "value" -> "abc"
      [] k = "path" -> "/"
      [] k = "secure" -> "true"
      [] k = "expiry" -> "1700000000"
      [] k = "expires" -> "1800000000"
      [] k = "httpOnly" -> "false"
      [] OTHER -> "Lax"

\* The values of "domain": a string <<s>>, or None (null in the JSON file).
DomainValues == {<<".bing.com">>, <<"www.bing.com">>, <<"bing.com">>, None}

\* The records a cookie file can hold: name and value, any of the other keys.
CookieRecords ==
    {[k \in D |-> IF k = "domain" THEN d ELSE FieldValue(k)] :
        D \in {{"name", "value"} \cup S : S \in SUBSET (CookieKeys \ {"name", "value"})},
        d \in DomainValues}

\* if 'expires' in cookie: cookie['expiry'] = cookie.pop('expires')
RenameExpires(c) ==
    IF "expires" \in DOMAIN c
    THEN [k \in (DOMAIN c \ {"expires"}) \cup {"expiry"} |->
            IF k = "expiry" THEN c["expires"] ELSE c[k]]
    ELSE c

\* cookie.get("domain", "").startswith(".") raises when the value is None.
DomainRaises(c) == "domain" \in DOMAIN c /\ c["domain"] = None

AdjustDomain_Keep(c) == c

\* if cookie.get("domain", "").startswith("."): cookie["domain"] = "www.bing.com"
AdjustDomain(c) ==
    IF "domain" \in DOMAIN c /\ StartsWith(c["domain"][1], ".")
    THEN [c EXCEPT !["domain"] = <<"www.bing.com">>]
    ELSE c

AllowedKeys == {"name", "value", "path", "domain", "secure", "expiry"}

\* filtered_cookie = {k: cookie[k] for k in cookie if k in allowed_keys}
FilterKeys(c) == [k \in DOMAIN c \cap AllowedKeys |-> c[k]]

\* The body of "for cookie in cookies" up to the add_cookie call.
FilteredCookie(c) == FilterKeys(AdjustDomain(RenameExpires(c)))

\* start() returns because of why: the with block is left, and SB's __exit__
\* quits the browser.
StartReturns(why) ==
    /\ spc' = "started"
    /\ browser' = "quit"
    /\ endBy' = why

\* authenticate() returns False because the step at failed: load_cookies gave
\* False, start prints and returns.
AuthFails(at) ==
    /\ StartReturns("auth_failed")
    /\ authRet' = "False"
    /\ raisedAt' = at

\* __main__ calls scraper.start(): "with SB(**config) as sb", the managers, the
\* consent banner; authenticate() is next.
SessionStart ==
    /\ spc = "idle"
    /\ browser' = "open"
    /\ spc' = "auth"
    /\ UNCHANGED <<cookieFile, stored, passed, nLoaded, endBy, saveOk, sesHist>>
    /\ UNCHANGED sesOther

\* The steps of load_cookies before the loop that can fail on the file f:
\* os.path.exists, open(), json.load, sb.open.
LoadFailures(f) ==
    CASE f = "absent" -> {"missing"}
      [] f = "garbage" -> {"read", "parse"}
      [] OTHER -> {"read", "open"}

\* load_cookies without a file, or with a file that cannot be read or parsed,
\* or with sb.open raising: it returns False, authenticate returns False and
\* start returns.
LoadFails(at) ==
    /\ spc = "auth"
    /\ at \in LoadFailures(cookieFile)
    /\ AuthFails(at)
    /\ UNCHANGED <<cookieFile, stored, passed, nLoaded, saveOk>>
    /\ UNCHANGED <<opened, rejected, cycles, answer, success>>
    /\ UNCHANGED sesOther

\* load_cookies: the file exists, json.load and sb.open succeed.
LoadOpen ==
    /\ spc = "auth"
    /\ cookieFile \notin {"absent", "garbage"}
    /\ spc' = "load"
    /\ nLoaded' = 0
    /\ opened' = TRUE
    /\ UNCHANGED <<browser, cookieFile, stored, passed, endBy, saveOk>>
    /\ UNCHANGED <<authRet, raisedAt, rejected, cycles, answer, success>>
    /\ UNCHANGED sesOther

RejectionAborts_Loop(accepted) == ~accepted

\* try: sb_instance.add_cookie(filtered_cookie) / except Exception: print a
\* warning: does a refusal of add_cookie leave the loop?
RejectionAborts(accepted) == FALSE

\* One iteration of "for cookie in cookies" on the record c: add_cookie is
\* called with filtered_cookie and accepts it or raises (an exception of
\* add_cookie is a warning and the loop goes on).
LoadCookie(c, accepted) ==
    /\ spc = "load"
    /\ nLoaded < MaxCookies
    /\ ~DomainRaises(RenameExpires(c))
    /\ stored' = c
    /\ passed' = FilteredCookie(c)
    /\ nLoaded' = nLoaded + 1
    /\ rejected' = IF accepted THEN rejected ELSE rejected + 1
    /\ IF RejectionAborts(accepted)
       THEN AuthFails("add_cookie")
       ELSE UNCHANGED <<spc, browser, endBy, authRet, raisedAt>>
    /\ UNCHANGED <<cookieFile, saveOk, opened, cycles, answer, success>>
    /\ UNCHANGED sesOther

\* An iteration on a record c whose domain is None: the AttributeError ends the
\* loop, load_cookies returns False, start returns.
LoadCookieRaises(c) ==
    /\ spc = "load"
    /\ nLoaded < MaxCookies
    /\ DomainRaises(RenameExpires(c))
    /\ AuthFails("record")
    /\ UNCHANGED <<cookieFile, stored, passed, nLoaded, saveOk>>
    /\ UNCHANGED <<opened, rejected, cycles, answer, success>>
    /\ UNCHANGED sesOther

\* The end of the list: load_cookies returns True, authenticate refreshes the
\* page and returns True, the generation loop begins.
LoadDone ==
    /\ spc = "load"
    /\ spc' = "loop"
    /\ authRet' = "True"
    /\ UNCHANGED <<browser, cookieFile, stored, passed, nLoaded, endBy, saveOk>>
    /\ UNCHANGED <<raisedAt, opened, rejected, cycles, answer, success>>
    /\ UNCHANGED sesOther

\* The end of the list, but sb.refresh() raises: authenticate has no handler,
\* nor has start, so the exception leaves the with block (the browser quits)
\* and ends the program before cleanup().
AuthRefreshRaises ==
    /\ spc = "load"
    /\ spc' = "crashed"
    /\ browser' = "quit"
    /\ endBy' = "raised"
    /\ authRet' = "raised"
    /\ raisedAt' = "refresh"
    /\ UNCHANGED <<cookieFile, stored, passed, nLoaded, saveOk>>
    /\ UNCHANGED <<opened, rejected, cycles, answer, success>>
    /\ UNCHANGED sesOther

\* str.lower() of one character, for the letters the answers are made of.
LowerChar(ch) ==
    CASE ch = "Y" -> "y"
      [] ch = "E" -> "e"
      [] ch = "S" -> "s"
      [] ch = "N" -> "n"
      [] ch = "O" -> "o"
      [] OTHER -> ch

RECURSIVE Lower(_)
\* str.lower()
Lower(t) ==
    IF t = "" THEN "" ELSE LowerChar(SubSeq(t, 1, 1)) \o Lower(SubSeq(t, 2, Len(t)))

\* What the user may type at "Generate another image? (y/n)".
Answers == {"y", " Yes ", "YES", "yess", "n", ""}

Continues_AsTyped(typed) == typed \in {"y", "yes"}

\* continue_choice = input(...).strip().lower();
\* if continue_choice not in ['y', 'yes']: break
Continues(typed) == Lower(Strip(typed)) \in {"y", "yes"}

\* One pass of "while True": run_generation_cycle returns ok, then the user
\* types the answer to "Generate another image?" / "Try again?"; anything but
\* y / yes is the break.
SessionCycle(ok, typed) ==
    /\ spc = "loop"
    /\ cycles < MaxCycles
    /\ cycles' = cycles + 1
    /\ success' = ok
    /\ answer' = typed
    /\ IF Continues(typed)
       THEN endBy' = "again" /\ UNCHANGED <<spc, browser>>
       ELSE StartReturns("declined")
    /\ UNCHANGED <<cookieFile, stored, passed, nLoaded, saveOk>>
    /\ UNCHANGED <<authRet, raisedAt, opened, rejected>>
    /\ UNCHANGED sesOther

\* except KeyboardInterrupt: break / except Exception: break, raised in the
\* cycle or at the question.
SessionBreak(why) ==
    /\ spc = "loop"
    /\ cycles < MaxCycles
    /\ cycles' = cycles + 1
    /\ StartReturns(why)
    /\ UNCHANGED <<cookieFile, stored, passed, nLoaded, saveOk>>
    /\ UNCHANGED <<authRet, raisedAt, opened, rejected, answer, success>>
    /\ UNCHANGED sesOther

\* sb_instance.get_cookies() on browser b: a browser that has quit has no
\* session to ask.
GetCookiesRaises(b) == b # "open"

\* save_cookies: get_cookies(), then open(file, 'w+') and json.dump; any
\* exception leaves the file f as it is.
FileAfterSave(f, b) == IF GetCookiesRaises(b) THEN f ELSE "session"

\* __main__ calls scraper.cleanup() after start(): self.sb is set, save_cookies,
\* then self.sb.quit().
Cleanup ==
    /\ spc = "started"
    /\ cookieFile' = FileAfterSave(cookieFile, browser)
    /\ saveOk' = ~GetCookiesRaises(browser)
    /\ browser' = "quit"
    /\ spc' = "done"
    /\ UNCHANGED <<stored, passed, nLoaded, endBy, sesHist>>
    /\ UNCHANGED sesOther

SessionNext ==
    \/ SessionStart
    \/ \E at \in {"missing", "read", "parse", "open"} : LoadFails(at)
    \/ LoadOpen
    \/ \E c \in CookieRecords, accepted \in BOOLEAN : LoadCookie(c, accepted)
    \/ \E c \in CookieRecords : LoadCookieRaises(c)
    \/ LoadDone
    \/ AuthRefreshRaises
    \/ \E ok \in BOOLEAN, typed \in Answers : SessionCycle(ok, typed)
    \/ \E why \in {"interrupt", "error"} : SessionBreak(why)
    \/ Cleanup

SessionInit ==
    /\ LocIdle
    /\ PollIdle
    /\ GenIdle
    /\ CycleIdle
    /\ SessionIdle
    /\ EnhIdle
    /\ ChangingIdle
    /\ SaveIdle
    /\ cookieFile \in {"absent", "garbage", "old"}

SpecSession == SessionInit /\ [][SessionNext]_vars

\* ----------------------------------------------- properties of the session
\* C15 as stated: when the main flow (start() followed by cleanup()) is over,
\* however the session loop ended, the cookie file holds the cookie list of the
\* browser session that was used.
C15_FileOverwrittenAtEnd == (spc = "done") => cookieFile = "session"

\* C16: the record passed to add_cookie has no "expires" key, the stored
\* "expires" value being under "expiry"; its domain is "www.bing.com" when the
\* stored domain began with "." and the stored domain otherwise; its keys are
\* those of the stored record among name, value, path, domain, secure, expiry
\* ("expiry" added by the renaming), every other value as stored.
C16_CookieRecordNormalised ==
    (nLoaded > 0)
    => /\ "expires" \notin DOMAIN passed
       /\ ("expires" \in DOMAIN stored)
          => ("expiry" \in DOMAIN passed /\ passed["expiry"] = stored["expires"])
       /\ DOMAIN passed \subseteq {"name", "value", "path", "domain", "secure", "expiry"}
       /\ ("domain" \in DOMAIN stored)
          => /\ "domain" \in DOMAIN passed
             /\ passed["domain"] =
                    (IF SubSeq(stored["domain"][1], 1, 1) = "."
                     THEN <<"www.bing.com">> ELSE stored["domain"])
       /\ \A k \in {"name", "value", "path", "secure", "expiry"} :
            /\ (k \in DOMAIN passed)
               <=> (k \in DOMAIN stored \/ (k = "expiry" /\ "expires" \in DOMAIN stored))
            /\ (k \in DOMAIN stored /\ ~(k = "expiry" /\ "expires" \in DOMAIN stored))
               => passed[k] = stored[k]
       /\ ("domain" \in DOMAIN passed) => ("domain" \in DOMAIN stored)

C16_Witness ==
    /\ nLoaded = 2
    /\ DOMAIN stored = CookieKeys
    /\ stored["domain"] = <<".bing.com">>
    /\ DOMAIN passed = {"name", "value", "path", "domain", "secure", "expiry"}
    /\ passed["domain"] = <<"www.bing.com">>
    /\ passed["expiry"] = "1800000000"

\* ------------------------------------------- the enhanced variant's prompt
enhOther == <<locVars, pollVars, genVars, cycVars, sesVars, chgVars, savVars>>

\* self.prefix
EnhancePrefix == "enhance prompt: "

\* What a user may type at the two input() calls.
TypedPrompts == {"", "  ", "cat", " cat ", "a cat  ", " dog"}
TypedChoices == {"", "1", "2", " 2 ", "no"}

\* What the language model may give back.
EnhancerOutputs == {"", "cat", "a cat, studio light"}

\* self.prompt_enhancer and self.prompt_enhancer.is_available()
EnhancerAvailable(e) == e = "loaded"

WantsEnhancement_Always(c) == TRUE

\* choice = input(...).strip(); if choice != "2"
WantsEnhancement(c) == Strip(c) # "2"

\* BingImageScraper(...): __post_init__, PromptEnhancer() and _initialize_model
\* when enable_prompt_enhancement is set; e is what came of it.
EnhConstruct(e) ==
    /\ epc = "new"
    /\ enhancer' = e
    /\ epc' = "idle"
    /\ UNCHANGED <<raw, userPrompt, choice, enhRaised, enhArg, enhOut, finalPrompt,
                   genCalled, submitted>>
    /\ UNCHANGED enhOther

\* run_generation_cycle calls get_user_prompt; the user types r. An empty prompt
\* gives None; without an enhancer the prompt is returned as it is.
GetUserPrompt(r) ==
    /\ epc \in {"idle", "returned"}
    /\ raw' = r
    /\ userPrompt' = Strip(r)
    /\ choice' = ""
    /\ enhRaised' = FALSE
    /\ enhArg' = ""
    /\ enhOut' = ""
    /\ genCalled' = FALSE
    /\ submitted' = ""
    /\ IF Strip(r) = ""
       THEN epc' = "returned" /\ finalPrompt' = ""
       ELSE IF EnhancerAvailable(enhancer)
       THEN epc' = "choose" /\ finalPrompt' = ""
       ELSE epc' = "submit" /\ finalPrompt' = Strip(r)
    /\ UNCHANGED enhancer
    /\ UNCHANGED enhOther

\* The user types c at "Choose option": enhance_prompt(prompt), or the prompt.
ChooseOption(c) ==
    /\ epc = "choose"
    /\ choice' = c
    /\ IF WantsEnhancement(c)
       THEN epc' = "enhance" /\ UNCHANGED finalPrompt
       ELSE epc' = "submit" /\ finalPrompt' = userPrompt
    /\ UNCHANGED <<enhancer, raw, userPrompt, enhRaised, enhArg, enhOut, genCalled, submitted>>
    /\ UNCHANGED enhOther

\* enhance_prompt: self.enhancer(self.prefix + prompt, ...) gives out.
EnhanceOk(out) ==
    /\ epc = "enhance"
    /\ enhArg' = EnhancePrefix \o userPrompt
    /\ enhOut' = out
    /\ finalPrompt' = out
    /\ epc' = "submit"
    /\ UNCHANGED <<enhancer, raw, userPrompt, choice, enhRaised, genCalled, submitted>>
    /\ UNCHANGED enhOther

\* enhance_prompt: the call raises, or its response has no generated_text;
\* "except Exception" returns the prompt.
EnhanceRaises ==
    /\ epc = "enhance"
    /\ enhArg' = EnhancePrefix \o userPrompt
    /\ enhRaised' = TRUE
    /\ finalPrompt' = userPrompt
    /\ epc' = "submit"
    /\ UNCHANGED <<enhancer, raw, userPrompt, choice, enhOut, genCalled, submitted>>
    /\ UNCHANGED enhOther

\* run_generation_cycle: if not prompt: return False; otherwise
\* generate_image(prompt) and the rest of the cycle.
SubmitPrompt ==
    /\ epc = "submit"
    /\ IF finalPrompt = ""
       THEN UNCHANGED <<genCalled, submitted>>
       ELSE genCalled' = TRUE /\ submitted' = finalPrompt
    /\ epc' = "returned"
    /\ UNCHANGED <<enhancer, raw, userPrompt, choice, enhRaised, enhArg, enhOut, finalPrompt>>
    /\ UNCHANGED enhOther

EnhNext ==
    \/ \E e \in {"off", "none", "loaded"} : EnhConstruct(e)
    \/ \E r \in TypedPrompts : GetUserPrompt(r)
    \/ \E c \in TypedChoices : ChooseOption(c)
    \/ \E out \in EnhancerOutputs : EnhanceOk(out)
    \/ EnhanceRaises
    \/ SubmitPrompt

EnhInit == LocIdle /\ PollIdle /\ RestIdle

SpecEnhance == EnhInit /\ [][EnhNext]_vars

\* C18: the rewriting step is optional and comes before submission: the prompt
\* generate_image is called with is the user's prompt, stripped of its outer
\* blanks, or what the enhancer gave for it; and when the enhancer is disabled or failed to load,
\* or its call raised, or the user chose option 2, a cycle with a non-empty
\* prompt calls generate_image with the stripped prompt unchanged.
C18_EnhancementOptional ==
    /\ genCalled
       => \/ submitted = userPrompt
          \/ (submitted = enhOut /\ enhArg = "enhance prompt: " \o userPrompt /\ ~enhRaised)
    /\ (genCalled \/ epc = "returned")
       => /\ \E a, b \in {"", " ", "  "} : raw = a \o userPrompt \o b
          /\ userPrompt # "" => (SubSeq(userPrompt, 1, 1) # " "
                                 /\ SubSeq(userPrompt, Len(userPrompt), Len(userPrompt)) # " ")
    /\ (/\ epc = "returned"
        /\ userPrompt # ""
        /\ (enhancer # "loaded" \/ enhRaised \/ choice \in {"2", " 2 "}))
       => (genCalled /\ submitted = userPrompt /\ enhOut = "")

C18_Witness ==
    /\ epc = "returned"
    /\ enhancer = "loaded"
    /\ raw = " cat "
    /\ choice = " 2 "
    /\ genCalled
    /\ submitted = "cat"

\* ------------------------------------- the poller on a page that changes
chgOther == <<locVars, genVars, cycVars, sesVars, enhVars, savVars>>

\* The src values the img.image-row-img elements may have in a round.
ChangingDoms ==
    {<<>>,
     <<<<"http://a">>>>,
     <<<<"blob:b">>, <<"">>>>,
     <<<<"http://a">>, <<"http://a">>, <<"http://c">>>>,
     <<<<"https://d">>, <<"blob:b">>, <<"blob:e">>>>,
     <<<<"http://a">>, <<"blob:b">>, <<"http://c">>, <<"https://d">>>>,
     <<<<"blob:e">>, <<"https://d">>, <<"blob:e">>, <<"http://c">>, <<"blob:b">>, <<"http://a">>>>}

RoundStartUrls_Keep(u) == u

\* "urls = []" at the top of the while body: what a round starts from when the
\* round before left u.
RoundStartUrls(u) == <<>>

\* get_image_urls is called: time.sleep(10), start_time = time.time(), urls = [].
ChangingCall ==
    /\ ppc \in {"idle", "returned"}
    /\ ppc' = "loop"
    /\ elapsed' = 0
    /\ urls' = <<>>
    /\ pending' = 0
    /\ rounds' = 0
    /\ exitBy' = "none"
    /\ result' = <<>>
    /\ dom' = <<>>
    /\ earlier' = {}
    /\ UNCHANGED chgOther

\* One pass of the while loop, the page showing the src values d in this round:
\* urls = [], the for loop, then the break and the return, or time.sleep(2).
ChangingRound(d) ==
    /\ ppc = "loop"
    /\ elapsed < PollTimeout
    /\ rounds' = rounds + 1
    /\ dom' = d
    /\ earlier' = earlier \cup {urls[i] : i \in 1..Len(urls)}
    /\ urls' = ExtractAll(RoundStartUrls(urls), d)
    /\ IF BreakCondition(urls')
       THEN /\ exitBy' = "break"
            /\ result' = Truncate(Pad(urls'))
            /\ ppc' = "returned"
            /\ UNCHANGED elapsed
       ELSE /\ elapsed' = elapsed + PollInterval
            /\ UNCHANGED <<ppc, exitBy, result>>
    /\ UNCHANGED pending
    /\ UNCHANGED chgOther

ChangingNext ==
    \/ ChangingCall
    \/ \E d \in ChangingDoms : ChangingRound(d)
    \/ LoopTimeout

ChangingInit == LocIdle /\ PollIdle /\ RestIdle

SpecChanging == ChangingInit /\ [][ChangingNext]_vars

\* ------------------------------------------------------------ save_cookies
savOther == <<locVars, pollVars, genVars, cycVars, sesVars, enhVars, chgVars>>

\* The names a cookie of the session may have.
CookieNames == {"_U", "SRCHD"}

\* What get_cookies() can give: the cookies of the session, at most MaxJar.
Jars == UNION {[1..n -> CookieNames] : n \in 0..MaxJar}

\* A file that json.dump wrote to the end with the cookies cs.
WholeFile(cs) == [state |-> "whole", cookies |-> cs]

\* A file that was opened for writing and not written to the end: the cookies
\* cs, if any, are what reached it.
CutFile(cs) == [state |-> "cut", cookies |-> cs]

\* The cookie file before a call: none, or the one an earlier save wrote.
Files == {NoFile} \cup {WholeFile(cs) : cs \in Jars}

\* save_cookies returns r.
SaveReturns(r) ==
    /\ vpc' = "returned"
    /\ saveRet' = r

\* save_cookies(sb_instance) is called.
SaveCall ==
    /\ vpc = "idle"
    /\ vpc' = "get"
    /\ diskBefore' = disk
    /\ UNCHANGED <<sbState, jar, disk, saveRet>>
    /\ UNCHANGED savOther

\* cookies = sb_instance.get_cookies(); on a browser that has quit it raises,
\* and the handler returns False.
SaveGetCookies ==
    /\ vpc = "get"
    /\ IF GetCookiesRaises(sbState)
       THEN SaveReturns("False")
       ELSE vpc' = "open" /\ UNCHANGED saveRet
    /\ UNCHANGED <<sbState, jar, disk, diskBefore>>
    /\ UNCHANGED savOther

\* open(self.cookies_file, 'w+'): the file is created if there is none and cut
\* to length zero if there is one.
OpenForWriting(f) == CutFile(<<>>)

\* with open(self.cookies_file, 'w+') as f: the open succeeds, or raises
\* (no directory, no permission; in enhanced_bing.py also the mkdir before it)
\* and the handler returns False.
SaveOpen(ok) ==
    /\ vpc = "open"
    /\ IF ok
       THEN /\ disk' = OpenForWriting(disk)
            /\ vpc' = "dump"
            /\ UNCHANGED saveRet
       ELSE /\ SaveReturns("False")
            /\ UNCHANGED disk
    /\ UNCHANGED <<sbState, jar, diskBefore>>
    /\ UNCHANGED savOther

\* json.dump(cookies, f, indent=2) writes every cookie and save_cookies
\* returns True.
SaveDump ==
    /\ vpc = "dump"
    /\ disk' = WholeFile(jar)
    /\ SaveReturns("True")
    /\ UNCHANGED <<sbState, jar, diskBefore>>
    /\ UNCHANGED savOther

\* json.dump raises after k cookies reached the file (the disk is full, a
\* value cannot be serialised): the with block closes the file as it is and
\* the handler returns False.
SaveDumpRaises(k) ==
    /\ vpc = "dump"
    /\ k <= Len(jar)
    /\ disk' = CutFile(SubSeq(jar, 1, k))
    /\ SaveReturns("False")
    /\ UNCHANGED <<sbState, jar, diskBefore>>
    /\ UNCHANGED savOther

SaveNext ==
    \/ SaveCall
    \/ SaveGetCookies
    \/ \E ok \in BOOLEAN : SaveOpen(ok)
    \/ SaveDump
    \/ \E k \in 0..MaxJar : SaveDumpRaises(k)

\* A call of save_cookies on any browser, session and cookie file.
SaveInit ==
    /\ LocIdle
    /\ PollIdle
    /\ GenIdle
    /\ CycleIdle
    /\ SessionIdle
    /\ cookieFile = "absent"
    /\ EnhIdle
    /\ ChangingIdle
    /\ vpc = "idle"
    /\ sbState \in {"open", "quit"}
    /\ jar \in Jars
    /\ disk \in Files
    /\ diskBefore = disk
    /\ saveRet = "none"

SpecSave == SaveInit /\ [][SaveNext]_vars

\* ------------------------------------------------- properties of the poller
Returned == ppc = "returned"

\* C3: whatever the extraction rounds gave, and whether the loop ended by break
\* or by timeout, the sequence get_image_urls returns has length exactly 4.
C3_ResultLengthIsFour == Returned => Len(result) = 4

C3_Witness ==
    /\ Returned
    /\ Len(urls) = 5
    /\ Len(result) = 4
    /\ rounds > 1

\* C4: no non-empty URL occurs at two positions of the returned sequence.
C4_NoDuplicateUrl ==
    Returned =>
        \A i, j \in 1..Len(result) : (i # j /\ result[i] = result[j]) => result[i] = ""

C4_Witness ==
    /\ Returned
    /\ rounds = 2
    /\ result = <<"http://a", "blob:b", "", "">>

\* C6: once a round has read all its elements and holds at least 4 distinct valid
\* URLs, the next step is the return: no sleep (the clock does not move) and no
\* further round, also in the last round before max_wait; and the loop condition
\* is never evaluated with 4 URLs in hand.
C6_StopsImmediately ==
    [][/\ (ppc = "read" /\ pending = 0 /\ Len(urls) >= 4)
          => (ppc' = "returned" /\ exitBy' = "break"
              /\ elapsed' = elapsed /\ rounds' = rounds /\ result' = SubSeq(urls, 1, 4))
       /\ (ppc' = "loop" /\ ppc # "loop" /\ rounds' > 0) => Len(urls') < 4]_vars

C6_Witness ==
    /\ Returned
    /\ exitBy = "break"
    /\ elapsed = PollTimeout - PollInterval
    /\ rounds = 30
    /\ Len(urls) = 4

Empties(n) == [i \in 1..n |-> ""]

\* C7: the poll is bounded (at most 60 / 2 = 30 rounds, the clock moving on at
\* every sleep) and a poll whose budget is exhausted without 4 valid URLs returns,
\* rather than raises: the URLs of the last round followed by empty strings, 4
\* entries in all (4 empty strings when the last round saw nothing valid).
C7_TimeoutDegradesToPadding ==
    /\ rounds <= 30
    /\ (ppc = "loop" /\ elapsed >= 60) => (Len(urls) < 4 /\ ENABLED LoopTimeout)
    /\ exitBy = "timeout"
       => /\ Returned
          /\ Len(urls) < 4
          /\ result = urls \o Empties(4 - Len(urls))

C7_Witness ==
    /\ Returned
    /\ exitBy = "timeout"
    /\ rounds = 30
    /\ result = <<"", "", "", "">>

\* The positions of S that hold a valid URL (non-empty, with an http://,
\* https:// or blob: prefix) not met at an earlier position.
FirstSeen(S) ==
    SelectSeq([i \in 1..Len(S) |-> i],
              LAMBDA i : /\ S[i] # None
                         /\ \E pre \in {"http://", "https://", "blob:"} :
                                StartsWith(S[i][1], pre)
                         /\ \A j \in 1..(i - 1) : S[j] # S[i])

\* S filtered to valid values, deduplicated in first-seen order.
DistinctValid(S) == [k \in 1..Len(FirstSeen(S)) |-> S[FirstSeen(S)[k]][1]]

\* C5: on a page that gives the same candidate sequence S (dom) in every round,
\* get_image_urls returns the first 4 entries of S's distinct valid values, in
\* DOM order, followed by empty strings; with fewer than 4 of them it polls
\* until max_wait (30 rounds), with 4 or more it returns after the first round.
C5_StaticPageResult ==
    Returned =>
        /\ result = SubSeq(DistinctValid(dom) \o Empties(4), 1, 4)
        /\ IF Len(DistinctValid(dom)) < 4
           THEN exitBy = "timeout" /\ elapsed >= 60 /\ rounds = 30
           ELSE exitBy = "break" /\ elapsed = 0 /\ rounds = 1

C5_Witness ==
    /\ Returned
    /\ dom = <<<<"http://a">>, <<"http://a">>, <<"blob:b">>, <<"">>, <<"http://c">>>>
    /\ result = <<"http://a", "blob:b", "http://c", "">>
    /\ exitBy = "timeout"

\* C12 as stated: every non-empty entry of the returned sequence starts with
\* "http://", "https://" or "blob:".
C12_OnlySchemeUrls ==
    Returned =>
        \A i \in 1..Len(result) :
            \/ result[i] = ""
            \/ \E pre \in {"http://", "https://", "blob:"} : StartsWith(result[i], pre)

\* C12, amended: every non-empty entry of the returned sequence starts with
\* "http" or with "blob:", and is a src value read in the last round; a missing
\* or empty src, or one with another prefix, is never returned.
C12_OnlyHttpOrBlobPrefix ==
    Returned =>
        \A i \in 1..Len(result) :
            \/ result[i] = ""
            \/ /\ <<result[i]>> \in AttrValues
               /\ SubSeq(result[i], 1, 4) = "http" \/ SubSeq(result[i], 1, 5) = "blob:"

C12_Witness ==
    /\ Returned
    /\ result = <<"httpfoo", "blob:b", "https://d", "">>

\* C8 as stated: a failure of find_elements or get_attribute in a round is taken
\* as "no data this round", so that no call of get_image_urls ends by raising.
C8_ExtractionFailureNotFatal == ppc # "raised"

PollInit == PollIdle /\ LocIdle /\ RestIdle

SpecPoll == PollInit /\ [][PollNext]_vars

\* ------------------------------------------------- properties of the locator
\* The contexts of page p (0 = main document) in which the selector is present.
PresentCtxs(p) == {c \in 0..Len(p.frames) : Probe(p, c) = "present"}

AllSwitchesSucceed(p) == \A i \in 1..Len(p.frames) : p.frames[i].switch = "ok"

\* The iframes a search can enter and in which the selector is present.
UsableFrames(p) ==
    {i \in 1..Len(p.frames) : p.frames[i].switch = "ok" /\ p.frames[i].probe = "present"}

Min(S) == CHOOSE x \in S : \A y \in S : x <= y

LocateFailed == outcome \in {"False", "NotFound"}

\* C1: when the selector is present in exactly one context (main document or one
\* iframe) and every frame switch succeeds, switch_to_prompt_frame and
\* switch_to_create_button_frame return True with exactly that context active.
C1_UniqueContextFound ==
    (/\ lpc = "done"
     /\ fn \in SwitchFns
     /\ AllSwitchesSucceed(page)
     /\ Cardinality(PresentCtxs(page)) = 1)
    => (outcome = "True" /\ PresentCtxs(page) = {ctx})

C1_Witness ==
    /\ lpc = "done"
    /\ fn = "switch_to_create_button_frame"
    /\ Len(page.frames) = 3
    /\ AllSwitchesSucceed(page)
    /\ PresentCtxs(page) = {2}
    /\ outcome = "True"
    /\ ctx = 2

\* C2: when the selector is present in no context, the locate call fails with
\* NotFound (False from switch_to_*_frame, the exception of
\* _get_prompt_input_element) and the main document is the active context,
\* whatever the number of iframes and whichever switches failed.
C2_NowhereGivesNotFound ==
    (lpc = "done" /\ PresentCtxs(page) = {})
    => (outcome = NotFoundOutcome(fn) /\ LocateFailed /\ ctx = Main)

C2_Witness ==
    /\ lpc = "done"
    /\ PresentCtxs(page) = {}
    /\ Len(page.frames) = 3
    /\ page.frames[2].switch = "stale"
    /\ page.frames[3].probe = "error"
    /\ fn = "_get_prompt_input_element"
    /\ entryCtx # Main
    /\ outcome = "NotFound"
    /\ ctx = Main

\* C9 as stated: every switch_to_*_frame call leaves the main document active
\* on exit, on success as on failure.
C9_AlwaysResetToMain ==
    (lpc = "done" /\ fn \in SwitchFns) => ctx = Main

\* C9, amended: a switch_to_*_frame call that fails leaves the main document
\* active; one that succeeds leaves active the context in which it found the
\* selector: the main document, or the first iframe that can be entered and
\* holds it.
C9_ResetOnFailureOnly ==
    (lpc = "done" /\ fn \in SwitchFns)
    => /\ outcome \in {"True", "False"}
       /\ outcome = "False" => ctx = Main
       /\ outcome = "True" =>
            ctx = (IF Main \in PresentCtxs(page) THEN Main ELSE Min(UsableFrames(page)))

C9_Witness ==
    /\ lpc = "done"
    /\ fn = "switch_to_prompt_frame"
    /\ entryCtx # Main
    /\ outcome = "True"
    /\ ctx = 3
    /\ page.frames[1].switch = "stale"

\* C10: an exception raised while switching into an iframe, or while testing the
\* selector inside it, counts as "not present in this frame": the search is back
\* in the main document and goes on, so the first later iframe that can be
\* entered and holds the selector is still found, and the call raises nothing but
\* NotFound, and that only when no context can be used.
C10_FrameFailureSwallowed ==
    (fn \in SwitchFns \/ entryCtx = Main)
    => /\ (lpc = "loop") => ctx = Main
       /\ (lpc = "done")
          => /\ outcome \in {"True", "False", "element", "NotFound"}
             /\ (Main \notin PresentCtxs(page) /\ UsableFrames(page) # {})
                => (~LocateFailed /\ ctx = Min(UsableFrames(page)))
             /\ LocateFailed
                => (Main \notin PresentCtxs(page) /\ UsableFrames(page) = {})

C10_Witness ==
    /\ lpc = "done"
    /\ fn = "_get_prompt_input_element"
    /\ entryCtx = Main
    /\ Len(page.frames) = 3
    /\ page.main = "absent"
    /\ page.frames[1] = [switch |-> "stale", probe |-> "present"]
    /\ page.frames[2] = [switch |-> "ok", probe |-> "error"]
    /\ page.frames[3] = [switch |-> "ok", probe |-> "present"]
    /\ outcome = "element"
    /\ ctx = 3

\* No value occurs at two positions of s.
NoRepeat(s) == \A i, j \in 1..Len(s) : i # j => s[i] # s[j]

Range(s) == {s[i] : i \in 1..Len(s)}

\* A call that starts from the main document: every switch_to_*_frame call (it
\* resets first), and _get_prompt_input_element entered with the main document
\* active.
StartsInMain == fn \in SwitchFns \/ entryCtx = Main

\* C14: a locate call is single-pass and bounded: at most one presence check in
\* the main document while it runs and exactly one when it is over, at most one
\* switch and one presence check per iframe of its snapshot, no frame visited
\* twice, the loop index never past the end of the snapshot; with zero iframes
\* and the selector absent from the main document it fails with NotFound after
\* that one check, having entered no iframe.
C14_SinglePass ==
    StartsInMain
    => /\ mainProbes <= 1
       /\ NoRepeat(tried)
       /\ NoRepeat(probed)
       /\ Range(tried) \subseteq Range(snapshot)
       /\ Range(probed) \subseteq Range(tried)
       /\ Len(tried) <= Len(page.frames)
       /\ idx <= Len(snapshot) + 1
       /\ (lpc = "done")
          => /\ mainProbes = 1
             /\ (page.frames = <<>> /\ page.main = "absent")
                => (LocateFailed /\ outcome = NotFoundOutcome(fn)
                    /\ tried = <<>> /\ probed = <<>>)

C14_Witness ==
    /\ lpc = "done"
    /\ fn = "switch_to_prompt_frame"
    /\ page = [main |-> "absent", frames |-> <<>>]
    /\ outcome = "False"
    /\ mainProbes = 1
    /\ tried = <<>>

\* C19: with the selector present in several contexts the result follows a fixed
\* priority: the main document when the selector is there, no iframe then being
\* enumerated or entered; otherwise the first iframe, in DOM order, that can be
\* entered and holds the selector, the iframes entered being exactly those up to
\* it; failure only when neither exists, every iframe having been tried in order.
C19_FixedPriority ==
    (lpc = "done" /\ StartsInMain)
    => IF Main \in PresentCtxs(page)
       THEN ~LocateFailed /\ ctx = Main /\ snapshot = <<>> /\ tried = <<>>
       ELSE IF UsableFrames(page) # {}
       THEN /\ ~LocateFailed
            /\ ctx = Min(UsableFrames(page))
            /\ tried = [i \in 1..Min(UsableFrames(page)) |-> i]
       ELSE LocateFailed /\ tried = [i \in 1..Len(page.frames) |-> i]

C19_Witness ==
    /\ lpc = "done"
    /\ fn = "switch_to_create_button_frame"
    /\ page.main = "absent"
    /\ Len(page.frames) = 3
    /\ page.frames[1] = [switch |-> "stale", probe |-> "present"]
    /\ page.frames[2] = [switch |-> "ok", probe |-> "present"]
    /\ page.frames[3] = [switch |-> "ok", probe |-> "present"]
    /\ outcome = "True"
    /\ ctx = 2
    /\ tried = <<1, 2>>

\* What a call that starts in the main document gives on page p: its report (is
\* the selector found) and the context it leaves active.
FromMain(p) ==
    IF Main \in PresentCtxs(p) THEN <<TRUE, Main>>
    ELSE IF UsableFrames(p) # {} THEN <<TRUE, Min(UsableFrames(p))>>
    ELSE <<FALSE, Main>>

\* C20 as stated: every locate routine, _get_prompt_input_element included,
\* starts from the main document whatever context was active at entry, so what
\* it reports and the context it leaves active are those of a call entered from
\* the main document on the same page.
C20_EntryContextIrrelevant ==
    (lpc = "done") => <<~LocateFailed, ctx>> = FromMain(page)

\* C21: clear and type are issued only after switch_to_prompt_frame succeeded,
\* in the context where it found #gi_form_q; the click only after the typing and
\* after switch_to_create_button_frame succeeded, in the context where it found
\* #create_btn_c; when either search fails generate_image returns False and
\* nothing is clicked.
C21_ActuationInLocatedContext ==
    /\ (typedIn # NoCtx)
       => /\ FromMain(pageQ)[1]
          /\ typedIn = FromMain(pageQ)[2]
          /\ Probe(pageQ, typedIn) = "present"
    /\ (clickedIn # NoCtx)
       => /\ typedIn # NoCtx
          /\ FromMain(pageC)[1]
          /\ clickedIn = FromMain(pageC)[2]
          /\ Probe(pageC, clickedIn) = "present"
    /\ ~FromMain(pageQ)[1] => typedIn = NoCtx
    /\ (~FromMain(pageQ)[1] \/ ~FromMain(pageC)[1])
       => (clickedIn = NoCtx /\ (gpc = "returned" => ret = FALSE))

C21_Witness ==
    /\ gpc = "returned"
    /\ ret = TRUE
    /\ typedIn = 1
    /\ clickedIn = 2

\* C23: after the click the completion waits are the three CSS selectors and
\* then the xpath fallback, in that order and each at most once; the call returns
\* True at the first wait that finds its element, no later wait being made, and
\* False only after all four failed: at most four waits.
C23_CompletionWaitsInOrder ==
    /\ Len(waited) <= 4
    /\ \A i \in 1..Len(waited) : waited[i] = i
    /\ (waited # <<>>) => clickedIn # NoCtx
    /\ (foundAt # 0) => (waited # <<>> /\ foundAt = Len(waited))
    /\ (gpc = "returned" /\ clickedIn # NoCtx)
       => /\ ret = (foundAt # 0)
          /\ ~ret => waited = <<1, 2, 3, 4>>

C23_Witness ==
    /\ gpc = "returned"
    /\ ret = TRUE
    /\ waited = <<1, 2, 3>>
    /\ foundAt = 3

\* C29: when generate_image returns, on whichever return path, stop() has been
\* run on the first spinner and on the generation spinner if it was started: no
\* flag is_spinning is set and no spinner thread is alive; and a stop() that
\* waits in join() has cleared the flag of a thread that exists, so that the
\* thread leaves its loop at its next test and, the threads being scheduled
\* fairly, the join returns (unless KeyboardInterrupt ends the call first).
SpinnersStopped ==
    /\ (gpc = "returned")
       => /\ thread["spinner"] = "exited"
          /\ thread["generation_spinner"] \in {"none", "exited"}
          /\ \A s \in Spinners : ~isSpinning[s]
          /\ (clickedIn # NoCtx) => thread["generation_spinner"] = "exited"
    /\ (gpc = "join")
       => /\ ~isSpinning[stopOf]
          /\ thread[stopOf] # "none"
          /\ (thread[stopOf] = "running") => ENABLED SpinCheck(stopOf)

C29_SpinnersStoppedOnReturn ==
    /\ []SpinnersStopped
    /\ (gpc = "join") ~> (gpc \in {"print", "interrupted"})

C29_Witness ==
    /\ gpc = "returned"
    /\ ret = FALSE
    /\ waited = <<1, 2, 3, 4>>
    /\ thread = [s \in Spinners |-> "exited"]

\* C22: the list is rebuilt in every round, so the result comes from the last
\* round performed alone: its non-empty entries are the first (at most 4) of
\* that round's valid, deduplicated src values, in order, and a URL collected by
\* an earlier round that the last round did not see is not in the result.
C22_LastRoundOnly ==
    Returned =>
        /\ rounds >= 1
        /\ result = SubSeq(DistinctValid(dom) \o Empties(4), 1, 4)
        /\ \A u \in earlier :
              (\A i \in 1..Len(dom) : dom[i] # <<u>>)
              => (\A k \in 1..Len(result) : result[k] # u)

C22_Witness ==
    /\ Returned
    /\ exitBy = "timeout"
    /\ "http://a" \in earlier
    /\ dom = <<<<"blob:b">>, <<"">>>>
    /\ result = <<"blob:b", "", "", "">>

\* The stages of run_generation_cycle in the order of its body.
StageOrder == <<"prompt", "generate", "poll", "download">>

\* C24: a cycle enters its stages in the order prompt, generate_image,
\* get_image_urls, download_all_images, and a stage that fails keeps every
\* later one from running: an empty prompt ends the cycle after the prompt
\* alone, a False or an exception from generate_image ends it before any
\* polling, a poll that raised or gave no url ends it before any download;
\* the cycle returns True iff at least one file was downloaded, and every
\* failure ends in a returned False.
C24_StagesInOrder ==
    /\ \E n \in 0..Len(StageOrder) : stages = SubSeq(StageOrder, 1, n)
    /\ dlCalled <=> (Len(stages) = Len(StageOrder))
    /\ cpc = "returned" =>
        /\ prompt = "" => stages = <<"prompt">> /\ ~cycleRet
        /\ genRet \in {"False", "raised"} =>
              stages = <<"prompt", "generate">> /\ ~cycleRet
        /\ ~AnyUrl(imageUrls) => Len(stages) < Len(StageOrder) /\ ~cycleRet
        /\ cycleRet <=> (files # <<>>)
        /\ cycleRet => stages = StageOrder /\ prompt # "" /\ genRet = "True"

\* A cycle went through all four stages and still returned False, every
\* download having failed.
C24_Witness ==
    /\ cpc = "returned"
    /\ stages = StageOrder
    /\ ~cycleRet
    /\ \E i \in 1..Len(outcomes) : outcomes[i] \in {"nodata", "raise"}

\* The positions of the non-empty entries of a url list.
NonEmptyAt(us) == {i \in 1..Len(us) : Truthy(us[i])}

\* C25: download_all_images goes through the urls in order, attempts one
\* download for each non-empty one and none for an empty one, goes on after a
\* failed download, and returns the successful downloads in url order: its
\* list is never longer than the number of non-empty urls.
C25_DownloadsInOrder ==
    dlCalled =>
        /\ Len(outcomes) = di - 1
        /\ Len(outcomes) <= Len(imageUrls)
        /\ cpc = "returned" => Len(outcomes) = Len(imageUrls)
        /\ \A i \in 1..Len(outcomes) :
              (outcomes[i] = "skip") <=> ~Truthy(imageUrls[i])
        /\ Len(scripts) = Cardinality({i \in 1..Len(outcomes) : outcomes[i] # "skip"})
        /\ \A k \in 1..Len(files) : files[k] \in 1..Len(outcomes) /\ outcomes[files[k]] = "saved"
        /\ \A k \in 1..(Len(files) - 1) : files[k] < files[k + 1]
        /\ \A i \in 1..Len(outcomes) :
              outcomes[i] = "saved" => \E k \in 1..Len(files) : files[k] = i
        /\ Len(files) <= Cardinality(NonEmptyAt(imageUrls))

\* The loop ended after a failed download was followed by a successful one,
\* with an empty entry somewhere in the list.
C25_Witness ==
    /\ cpc = "returned"
    /\ dlCalled
    /\ \E i, j \in 1..Len(outcomes) :
          i < j /\ outcomes[i] \in {"nodata", "raise"} /\ outcomes[j] = "saved"
    /\ \E i \in 1..Len(outcomes) : outcomes[i] = "skip"
    /\ Len(files) >= 2

\* C26: in start() no pass of the generation loop begins unless authenticate()
\* returned True; after a cycle, successful or failed, the loop goes on iff the
\* answer, trimmed and lower-cased, is y or yes; any other answer, a
\* KeyboardInterrupt and an unexpected exception leave the loop; and however
\* start() is left, a failed authentication included, the browser has quit.
C26_LoopGatedAndClosed ==
    /\ cycles > 0 => authRet = "True"
    /\ spc = "loop" => authRet = "True" /\ endBy \in {"none", "again"}
    /\ authRet = "False" => cycles = 0 /\ endBy = "auth_failed" /\ spc \in {"started", "done"}
    /\ endBy = "again" =>
          spc = "loop" /\ cycles > 0 /\ Lower(Strip(answer)) \in {"y", "yes"}
    /\ endBy = "declined" =>
          spc # "loop" /\ cycles > 0 /\ Lower(Strip(answer)) \notin {"y", "yes"}
    /\ endBy \in {"interrupt", "error"} => spc # "loop" /\ cycles > 0
    /\ spc \in {"started", "crashed", "done"} => browser = "quit"
    /\ spc \in {"auth", "load", "loop"} => browser = "open"

\* A second pass began, its cycle succeeded, and the answer "yess" to
\* "Generate another image?" ended the session with the browser closed.
C26_Witness ==
    /\ cycles = 2
    /\ endBy = "declined"
    /\ answer = "yess"
    /\ success
    /\ spc = "started"
    /\ browser = "quit"

\* C27 as stated: authenticate() returns True exactly when the cookie file
\* exists, was read and parsed, and the page opened without error.
C27_TrueExactlyWhenOpened ==
    authRet # "none" => ((authRet = "True") <=> opened)

\* C27: authenticate() returns True exactly when the cookie file exists, was
\* read and parsed, the page opened, no record of the file raised while it was
\* prepared, and the refresh did not raise; a cookie refused by add_cookie
\* neither ends the loop nor changes the result; without a file, or with one
\* that cannot be read or parsed, it returns False and does not raise.
C27_TrueWhenLoadedThrough ==
    /\ authRet # "none" =>
          ((authRet = "True") <=> (opened /\ raisedAt = "none"))
    /\ raisedAt # "add_cookie"
    /\ rejected <= nLoaded
    /\ authRet = "False" => raisedAt \in {"missing", "read", "parse", "open", "record"}
    /\ authRet = "raised" => raisedAt = "refresh" /\ opened
    /\ raisedAt \in {"missing", "read", "parse", "open"} => authRet = "False" /\ ~opened
    /\ (authRet # "none" /\ cookieFile \in {"absent", "garbage"}) => authRet = "False"

\* authenticate() returned True although add_cookie refused every cookie of
\* the file.
C27_Witness ==
    /\ authRet = "True"
    /\ nLoaded = MaxCookies
    /\ rejected = nLoaded

SpecLocate == LocateInit /\ [][LocNext]_vars

====
